---------------------------- MODULE Spec2Model ----------------------------
(***************************************************************************)
(* A model of build_texas_road_network.py: the attribute helpers           *)
(* (parse_maxspeed, infer_speed_kph, get_oneway_code), the segment         *)
(* generator geometry_to_segments, and the linear pipeline of main().      *)
(*                                                                         *)
(* Text is a sequence of one-character strings, so that lower(), upper(),  *)
(* strip(), isdigit() and float() are computed character by character.     *)
(* Python floats are exact decimal fractions [n, d] (value n/d) or NaN.    *)
(***************************************************************************)
EXTENDS Integers, Sequences, FiniteSets, TLC

(***************************************************************************)
(* Bounds of the model.                                                    *)
(***************************************************************************)
MaxStrLen == 3      \* longest text enumerated exhaustively over the alphabets
MaxRows == 2        \* road records in the loaded table
MaxVertices == 3    \* coordinates of one line
MaxParts == 2       \* parts of a multi-part geometry

(***************************************************************************)
(* Python values held in a table cell.                                     *)
(***************************************************************************)
PyNone == [k |-> "None"]
NaN == [k |-> "nan"]
Rat(n, d) == [k |-> "num", n |-> n, d |-> d]
PyInt(n) == Rat(n, 1)
PyText(s) == [k |-> "str", s |-> s]
PyName(c) == [k |-> "name", c |-> c]     \* a road-class string, only ever compared for equality
Raise(e) == [k |-> "raise", exc |-> e]

IsRaise(x) == x.k = "raise"

(***************************************************************************)
(* Characters.                                                             *)
(***************************************************************************)
UpperLetters == <<"A","B","C","D","E","F","G","H","I","J","K","L","M",
                  "N","O","P","Q","R","S","T","U","V","W","X","Y","Z">>
LowerLetters == <<"a","b","c","d","e","f","g","h","i","j","k","l","m",
                  "n","o","p","q","r","s","t","u","v","w","x","y","z">>
Digits == <<"0","1","2","3","4","5","6","7","8","9">>

IndexIn(seq, ch) == IF \E i \in 1..Len(seq) : seq[i] = ch
                    THEN CHOOSE i \in 1..Len(seq) : seq[i] = ch
                    ELSE 0

LowerCh(ch) == LET i == IndexIn(UpperLetters, ch) IN IF i = 0 THEN ch ELSE LowerLetters[i]
UpperCh(ch) == LET i == IndexIn(LowerLetters, ch) IN IF i = 0 THEN ch ELSE UpperLetters[i]
IsDigitCh(ch) == IndexIn(Digits, ch) # 0
DigitVal(ch) == IndexIn(Digits, ch) - 1
IsSpaceCh(ch) == ch = " "

\* str.lower(), str.upper()
Lower(s) == [i \in 1..Len(s) |-> LowerCh(s[i])]
Upper(s) == [i \in 1..Len(s) |-> UpperCh(s[i])]

\* str.strip(): leading and trailing whitespace removed
RECURSIVE LStrip(_)
LStrip(s) == IF s # <<>> /\ IsSpaceCh(Head(s)) THEN LStrip(Tail(s)) ELSE s
RECURSIVE RStrip(_)
RStrip(s) == IF s # <<>> /\ IsSpaceCh(s[Len(s)]) THEN RStrip(SubSeq(s, 1, Len(s) - 1)) ELSE s
Strip(s) == RStrip(LStrip(s))

\* "sub in s"
Contains(s, sub) == \E i \in 1..(Len(s) - Len(sub) + 1) : SubSeq(s, i, i + Len(sub) - 1) = sub

(***************************************************************************)
(* Exact fractions standing for Python floats.                             *)
(***************************************************************************)
RECURSIVE GCD(_, _)
GCD(a, b) == IF b = 0 THEN a ELSE GCD(b, a % b)
Abs(n) == IF n < 0 THEN -n ELSE n
Norm(n, d) == LET g == GCD(Abs(n), Abs(d)) IN
              IF d < 0 THEN Rat((-n) \div g, (-d) \div g) ELSE Rat(n \div g, d \div g)

\* x * y and x / y on (numpy) floats; NaN propagates and x / 0 does not raise
FMul(x, y) == IF x.k = "nan" \/ y.k = "nan" THEN NaN ELSE Norm(x.n * y.n, x.d * y.d)
Inf == [k |-> "inf"]
FDiv(x, y) == IF x.k = "nan" \/ y.k = "nan" THEN NaN
              ELSE IF y.n = 0 THEN (IF x.n = 0 THEN NaN ELSE Inf)
              ELSE Norm(x.n * y.d, x.d * y.n)
\* x <= 0 and x > 0 on floats: every comparison with NaN is False
LeZero(x) == x.k = "num" /\ x.n <= 0
GtZero(x) == x.k = "num" /\ x.n > 0

(***************************************************************************)
(* str(value)                                                              *)
(***************************************************************************)
RECURSIVE NatStr(_)
NatStr(n) == IF n < 10 THEN <<Digits[n + 1]>> ELSE NatStr(n \div 10) \o <<Digits[(n % 10) + 1]>>
PyStr(v) == CASE v.k = "None" -> <<"N","o","n","e">>
              [] v.k = "nan" -> <<"n","a","n">>
              [] v.k = "num" -> IF v.n < 0 THEN <<"-">> \o NatStr(-v.n) ELSE NatStr(v.n)
              [] v.k = "str" -> v.s

(***************************************************************************)
(* float(text): optional whitespace, optional sign, then "nan" or a        *)
(* decimal numeral with at least one digit and at most one point; anything *)
(* else raises ValueError.  (Exponents, underscores and "inf" are outside  *)
(* the alphabets enumerated here.)                                         *)
(***************************************************************************)
IsNumeral(t) == /\ t # <<>>
                /\ \A i \in 1..Len(t) : IsDigitCh(t[i]) \/ t[i] = "."
                /\ \E i \in 1..Len(t) : IsDigitCh(t[i])
                /\ Cardinality({i \in 1..Len(t) : t[i] = "."}) <= 1
RECURSIVE NumeralVal(_, _, _, _)
\* digits folded left to right: n is the digits read so far, d the power of ten after the point
NumeralVal(t, n, d, seenDot) ==
    IF t = <<>> THEN Norm(n, d)
    ELSE IF Head(t) = "." THEN NumeralVal(Tail(t), n, d, TRUE)
    ELSE NumeralVal(Tail(t), n * 10 + DigitVal(Head(t)), IF seenDot THEN d * 10 ELSE d, seenDot)
Negate(x) == IF x.k = "num" THEN Rat(-x.n, x.d) ELSE x
FloatOfText(s) ==
    LET t == Strip(s)
        signed == t # <<>> /\ Head(t) \in {"+", "-"}
        body == IF signed THEN Tail(t) ELSE t
        mag == IF Lower(body) = <<"n","a","n">> THEN NaN
               ELSE IF IsNumeral(body) THEN NumeralVal(body, 0, 1, FALSE)
               ELSE Raise("ValueError")
    IN IF signed /\ Head(t) = "-" THEN Negate(mag) ELSE mag
\* float(val) for a cell value that is not None
PyFloat(v) == CASE v.k = "nan" -> NaN
                [] v.k = "num" -> v
                [] v.k = "str" -> FloatOfText(v.s)
                [] OTHER -> Raise("TypeError")

(***************************************************************************)
(* DEFAULT_SPEEDS_KPH                                                      *)
(***************************************************************************)
DEFAULT_SPEEDS_KPH ==
    [motorway |-> 110, trunk |-> 100, primary |-> 90, secondary |-> 80, tertiary |-> 70,
     unclassified |-> 60, residential |-> 40, living_street |-> 25, pedestrian |-> 10,
     motorway_link |-> 80, trunk_link |-> 70, primary_link |-> 70, secondary_link |-> 60,
     tertiary_link |-> 50, service |-> 30, track |-> 30, track_grade1 |-> 40,
     track_grade2 |-> 35, track_grade3 |-> 30, track_grade4 |-> 25, track_grade5 |-> 20,
     bridleway |-> 10, cycleway |-> 20, footway |-> 5, path |-> 8, steps |-> 3, busway |-> 50]
FallbackSpeed == PyInt(50)
\* DEFAULT_SPEEDS_KPH.get(road_type, 50.0)
DefaultSpeedGet(road_type) ==
    IF road_type.k = "name" /\ road_type.c \in DOMAIN DEFAULT_SPEEDS_KPH
    THEN PyInt(DEFAULT_SPEEDS_KPH[road_type.c])
    ELSE FallbackSpeed

(***************************************************************************)
(* parse_maxspeed                                                          *)
(***************************************************************************)
MphFactor == Rat(160934, 100000)
RECURSIVE ScanNum(_, _)
\* the loop of lines 89-94: digits and points are collected; the first other
\* character after something was collected ends the scan
ScanNum(s, num) ==
    IF s = <<>> THEN num
    ELSE IF IsDigitCh(Head(s)) \/ Head(s) = "." THEN ScanNum(Tail(s), num \o <<Head(s)>>)
    ELSE IF num # <<>> THEN num
    ELSE ScanNum(Tail(s), num)
parse_maxspeed(value) ==
    IF value.k = "None" THEN PyNone
    ELSE LET s == Strip(Lower(PyStr(value)))
             num == ScanNum(s, <<>>)
             speed == FloatOfText(num)
         IN IF s = <<>> \/ s \in {<<"n","a","n">>, <<"n","o","n","e">>} THEN PyNone
            ELSE IF num = <<>> THEN PyNone
            ELSE IF IsRaise(speed) THEN speed
            ELSE IF Contains(s, <<"m","p","h">>) THEN FMul(speed, MphFactor)
            ELSE speed

(***************************************************************************)
(* A row is a sequence of columns [name, val] in index order.              *)
(***************************************************************************)
Col(name, val) == [name |-> name, val |-> val]
\* first column whose lower-cased name is among `names`; 0 when there is none
FindCol(row, names) ==
    IF \E i \in 1..Len(row) : Lower(row[i].name) \in names
    THEN CHOOSE i \in 1..Len(row) :
            /\ Lower(row[i].name) \in names
            /\ \A j \in 1..(i - 1) : Lower(row[j].name) \notin names
    ELSE 0

N_maxspeed == <<"m","a","x","s","p","e","e","d">>
N_highway == <<"h","i","g","h","w","a","y">>
N_fclass == <<"f","c","l","a","s","s">>
N_oneway == <<"o","n","e","w","a","y">>

(***************************************************************************)
(* infer_speed_kph                                                         *)
(***************************************************************************)
\* lines 116-129: the max-speed attempt; PyNone when it yields nothing
SpeedFromMaxspeed(row) ==
    LET maxspeed_col == FindCol(row, {N_maxspeed}) IN
    IF maxspeed_col = 0 THEN PyNone
    ELSE LET val == row[maxspeed_col].val IN
         IF val.k # "None" /\ Strip(PyStr(val)) # <<>>
         THEN LET f == PyFloat(val) IN
              IF IsRaise(f) /\ f.exc = "ValueError" THEN parse_maxspeed(val) ELSE f
         ELSE PyNone
\* lines 132-141: the class default; PyNone when there is no class column
SpeedFromClass(row) ==
    LET highway_col == FindCol(row, {N_highway, N_fclass}) IN
    IF highway_col = 0 THEN PyNone ELSE DefaultSpeedGet(row[highway_col].val)
infer_speed_kph(row) ==
    LET s1 == SpeedFromMaxspeed(row)
        s2 == IF s1.k = "None" THEN SpeedFromClass(row) ELSE s1
    IN IF s2.k = "None" THEN FallbackSpeed ELSE s2

(***************************************************************************)
(* get_oneway_code                                                         *)
(***************************************************************************)
\* a variant that compares the cell as it is, without strip()
get_oneway_code_NoStrip(row) ==
    LET oneway_col == FindCol(row, {N_oneway}) IN
    IF oneway_col = 0 THEN "B"
    ELSE LET val == Upper(PyStr(row[oneway_col].val)) IN
         IF val \in {<<"F">>, <<"T">>, <<"B">>} THEN val[1] ELSE "B"
get_oneway_code(row) ==
    LET oneway_col == FindCol(row, {N_oneway}) IN
    IF oneway_col = 0 THEN "B"
    ELSE LET val == Upper(Strip(PyStr(row[oneway_col].val))) IN
         IF val \in {<<"F">>, <<"T">>, <<"B">>} THEN val[1] ELSE "B"

(***************************************************************************)
(* geometry_to_segments.  Coordinates are projected points <<x, 0>> on the *)
(* equator, so the length of a line is the sum of |dx| along it.           *)
(***************************************************************************)
GNone == [t |-> "None"]
LineString(coords) == [t |-> "LineString", coords |-> coords]
MultiLineString(parts) == [t |-> "MultiLineString", parts |-> parts]
PointGeom(p) == [t |-> "Point", coords |-> <<p>>]

RECURSIVE PathLength(_)
PathLength(coords) ==
    IF Len(coords) < 2 THEN 0
    ELSE Abs(coords[2][1] - coords[1][1]) + PathLength(Tail(coords))
\* geom.length and geom.is_empty
GeomLength(g) == IF g.t = "LineString" THEN PathLength(g.coords) ELSE 0
IsEmptyGeom(g) == CASE g.t = "LineString" -> g.coords = <<>>
                    [] g.t = "MultiLineString" -> \A i \in 1..Len(g.parts) : g.parts[i] = <<>>
                    [] OTHER -> FALSE

Segment(s, e, l) == [start |-> s, end |-> e, length_m |-> l]
\* lines 191-193 and 197-199: one line's contribution
LineSegments(coords) ==
    IF Len(coords) >= 2 THEN <<Segment(coords[1], coords[Len(coords)], PathLength(coords))>>
    ELSE <<>>
RECURSIVE PartsSegments(_)
PartsSegments(parts) ==
    IF parts = <<>> THEN <<>> ELSE LineSegments(Head(parts)) \o PartsSegments(Tail(parts))
\* the generator: what it yields, in order, and the exception that ends it, if any.
\* Line 196 iterates over the multi-part geometry itself; Shapely before 2.0
\* iterates over its parts, Shapely 2.0 and later raises TypeError there, so
\* `iterable` is the behaviour of the installed library.
Yielded(segs) == [yields |-> segs, exc |-> "none"]
geometry_to_segments(geom, iterable) ==
    IF geom.t = "None" THEN Yielded(<<>>)
    ELSE IF IsEmptyGeom(geom) THEN Yielded(<<>>)
    ELSE IF geom.t = "LineString" THEN Yielded(LineSegments(geom.coords))
    ELSE IF geom.t = "MultiLineString"
         THEN (IF iterable THEN Yielded(PartsSegments(geom.parts))
               ELSE [yields |-> <<>>, exc |-> "TypeError"])
    ELSE Yielded(<<>>)

(***************************************************************************)
(* A table (GeoDataFrame): column names and rows of cells, the geometry    *)
(* being the cell [k |-> "geom"] of the column "geometry".                 *)
(***************************************************************************)
N_geometry == <<"g","e","o","m","e","t","r","y">>
N_length_m == <<"l","e","n","g","t","h","_","m">>
N_speed_kph == <<"s","p","e","e","d","_","k","p","h">>
N_travel_time_s == <<"t","r","a","v","e","l","_","t","i","m","e","_","s">>

GeomCell(g) == [k |-> "geom", g |-> g]
Table(columns, rows) == [columns |-> columns, rows |-> rows]
ColIndex(t, name) == CHOOSE j \in 1..Len(t.columns) : t.columns[j] = name
Cell(t, i, name) == t.rows[i][ColIndex(t, name)]
\* the Series handed to a row function: the columns in index order
RowSeries(t, i) == [j \in 1..Len(t.columns) |-> Col(t.columns[j], t.rows[i][j])]
\* t[name] = vals when the column is new
AppendCol(t, name, vals) ==
    Table(t.columns \o <<name>>, [i \in 1..Len(t.rows) |-> t.rows[i] \o <<vals[i]>>])
\* lines 218-222
USE_BBOX == FALSE
BBOX == [lon_min |-> -98, lon_max |-> -95, lat_min |-> 29, lat_max |-> 31]
GeomCoords(g) == CASE g.t = "LineString" -> {g.coords[i] : i \in 1..Len(g.coords)}
                   [] g.t = "MultiLineString" ->
                        UNION {{g.parts[p][i] : i \in 1..Len(g.parts[p])} : p \in 1..Len(g.parts)}
                   [] g.t = "Point" -> {g.coords[1]}
                   [] OTHER -> {}
InBBox(g) == \E c \in GeomCoords(g) : /\ BBOX.lon_min <= c[1] /\ c[1] <= BBOX.lon_max
                                      /\ BBOX.lat_min <= c[2] /\ c[2] <= BBOX.lat_max
BBoxFilter(t) ==
    IF USE_BBOX
    THEN LET keep(r) == InBBox(r[ColIndex(t, N_geometry)].g) IN Table(t.columns, SelectSeq(t.rows, keep))
    ELSE t

\* a variant that accepts only "highway"
FindHighwayCol_OnlyHighway(columns) ==
    IF \E j \in 1..Len(columns) : Lower(columns[j]) = N_highway
    THEN CHOOSE j \in 1..Len(columns) :
            /\ Lower(columns[j]) = N_highway
            /\ \A h \in 1..(j - 1) : Lower(columns[h]) # N_highway
    ELSE 0
\* lines 225-229: 0 when no column is the road class
FindHighwayCol(columns) ==
    IF \E j \in 1..Len(columns) : Lower(columns[j]) \in {N_highway, N_fclass}
    THEN CHOOSE j \in 1..Len(columns) :
            /\ Lower(columns[j]) \in {N_highway, N_fclass}
            /\ \A h \in 1..(j - 1) : Lower(columns[h]) \notin {N_highway, N_fclass}
    ELSE 0

\* lines 237-248
driveable_classes ==
    {"motorway", "trunk", "primary", "secondary", "tertiary",
     "unclassified", "residential", "living_street", "pedestrian",
     "motorway_link", "trunk_link", "primary_link", "secondary_link", "tertiary_link",
     "service", "track",
     "track_grade1", "track_grade2", "track_grade3", "track_grade4", "track_grade5",
     "bridleway", "cycleway", "footway", "path", "steps", "busway"}
FilterDriveable(t, hcol) ==
    LET keep(r) == r[hcol].k = "name" /\ r[hcol].c \in driveable_classes
    IN Table(t.columns, SelectSeq(t.rows, keep))

\* line 253: degrees on the equator to metres (EPSG:3857 along latitude 0)
MetersPerDegree == 111319
ProjectPoint(p) == <<p[1] * MetersPerDegree, p[2] * MetersPerDegree>>
ProjectCoords(c) == [i \in 1..Len(c) |-> ProjectPoint(c[i])]
ProjectGeom(g) == CASE g.t = "LineString" -> LineString(ProjectCoords(g.coords))
                    [] g.t = "MultiLineString" ->
                         MultiLineString([p \in 1..Len(g.parts) |-> ProjectCoords(g.parts[p])])
                    [] g.t = "Point" -> PointGeom(ProjectPoint(g.coords[1]))
                    [] OTHER -> g
ToCrs(t) ==
    LET g == ColIndex(t, N_geometry) IN
    Table(t.columns, [i \in 1..Len(t.rows) |->
                        [j \in 1..Len(t.columns) |->
                            IF j = g THEN GeomCell(ProjectGeom(t.rows[i][j].g)) ELSE t.rows[i][j]]])

\* line 258: every part of a multi-part geometry becomes a row of its own
RECURSIVE ExplodeRows(_, _)
ExplodeRows(rows, g) ==
    IF rows = <<>> THEN <<>>
    ELSE LET r == Head(rows)
             geo == r[g].g
             one == IF geo.t = "MultiLineString" /\ geo.parts # <<>>
                    THEN [p \in 1..Len(geo.parts) |->
                            [r EXCEPT ![g] = GeomCell(LineString(geo.parts[p]))]]
                    ELSE <<r>>
         IN one \o ExplodeRows(Tail(rows), g)
Explode(t) == Table(t.columns, ExplodeRows(t.rows, ColIndex(t, N_geometry)))

\* line 262: geometry.length, NaN for a missing geometry
LengthCell(g) == IF g.t = "None" THEN NaN ELSE PyInt(GeomLength(g))
WithLengths(t) ==
    AppendCol(t, N_length_m, [i \in 1..Len(t.rows) |-> LengthCell(Cell(t, i, N_geometry).g)])

\* line 266: the speeds of all rows, or the exception of the first row that raises
ApplyInferSpeed(t) ==
    LET sp == [i \in 1..Len(t.rows) |-> infer_speed_kph(RowSeries(t, i))] IN
    IF \E i \in 1..Len(sp) : IsRaise(sp[i])
    THEN [ok |-> FALSE,
          exc |-> sp[CHOOSE i \in 1..Len(sp) : IsRaise(sp[i]) /\ \A h \in 1..(i - 1) : ~IsRaise(sp[h])].exc]
    ELSE [ok |-> TRUE, vals |-> sp]
\* line 269
GuardSpeed(x) == IF LeZero(x) THEN FallbackSpeed ELSE x
GuardSpeeds(t) ==
    LET c == ColIndex(t, N_speed_kph) IN
    Table(t.columns, [i \in 1..Len(t.rows) |-> [t.rows[i] EXCEPT ![c] = GuardSpeed(@)]])
\* lines 272-274
TravelTime(length_m, speed_kph) == FDiv(length_m, FDiv(FMul(speed_kph, PyInt(1000)), PyInt(3600)))
WithTravelTimes(t) ==
    AppendCol(t, N_travel_time_s,
              [i \in 1..Len(t.rows) |-> TravelTime(Cell(t, i, N_length_m), Cell(t, i, N_speed_kph))])

(***************************************************************************)
(* nx.DiGraph: a node set and one attribute dictionary per ordered pair.   *)
(***************************************************************************)
EmptyGraph == [nodes |-> {}, adj |-> <<>>]
\* a variant that keeps the attributes an edge already has (setdefault)
DictUpdate_KeepOld(old, new) ==
    [a \in DOMAIN old \cup DOMAIN new |-> IF a \in DOMAIN old THEN old[a] ELSE new[a]]
\* dict.update
DictUpdate(old, new) ==
    [a \in DOMAIN old \cup DOMAIN new |-> IF a \in DOMAIN new THEN new[a] ELSE old[a]]
add_edge(G0, u, v, attr) ==
    LET old == IF <<u, v>> \in DOMAIN G0.adj THEN G0.adj[<<u, v>>] ELSE <<>>
        new == DictUpdate(old, attr)
    IN [nodes |-> G0.nodes \cup {u, v},
        adj |-> [e \in DOMAIN G0.adj \cup {<<u, v>>} |-> IF e = <<u, v>> THEN new ELSE G0.adj[e]]]

\* a variant that adds the forward edge for code T as well
EdgeCalls_ReverseAsForward(oneway_code, u, v) ==
    (IF oneway_code \in {"F", "T", "B"} THEN <<(<<u, v>>)>> ELSE <<>>)
      \o (IF oneway_code \in {"B"} THEN <<(<<v, u>>)>> ELSE <<>>)
\* lines 298-318: the add_edge calls of one segment, in order
EdgeCalls(oneway_code, u, v) ==
    (IF oneway_code \in {"F", "B"} THEN <<(<<u, v>>)>> ELSE <<>>)
      \o (IF oneway_code \in {"T", "B"} THEN <<(<<v, u>>)>> ELSE <<>>)
RECURSIVE AddEdges(_, _, _)
AddEdges(G0, calls, attr) ==
    IF calls = <<>> THEN G0
    ELSE AddEdges(add_edge(G0, Head(calls)[1], Head(calls)[2], attr), Tail(calls), attr)
\* lines 293-295 and the keyword arguments of add_edge
EdgeAttrs(t, i, hcol, length_m) ==
    [length_m |-> length_m,
     speed_kph |-> Cell(t, i, N_speed_kph),
     travel_time_s |-> Cell(t, i, N_travel_time_s),
     highway |-> t.rows[i][hcol]]

(***************************************************************************)
(* State.                                                                  *)
(*  row, geom, speedOut, onewayOut, segsOut, phase: one helper called on   *)
(*      one input (SpecSpeed, SpecOneway, SpecGeom).                       *)
(*  multiIterable: whether the installed Shapely iterates over the parts   *)
(*      of a multi-part geometry (before 2.0) or raises TypeError.         *)
(*  fileExists, shp: whether ROADS_SHP_PATH exists and what it holds.      *)
(*  pc: the step main() is about to run; err: the exception that ended it; *)
(*      failedAt: the step a library call failed in.                       *)
(*  roads, highway_col, roads_proj, G, idx, segNo: main()'s locals, segNo  *)
(*      counting the segments already consumed from row idx's generator.   *)
(*  files: the two output files.                                           *)
(*  steps, last, segLog: history of the run (completed steps, the last     *)
(*      segment's add_edge calls, all segments processed).                 *)
(***************************************************************************)
VARIABLES row, geom, speedOut, onewayOut, segsOut, phase, multiIterable,
          fileExists, shp, pc, err, failedAt,
          roads, highway_col, roads_proj, G, idx, segNo, files,
          steps, last, segLog

helperVars == <<row, geom, speedOut, onewayOut, segsOut, phase, multiIterable>>
mainVars == <<fileExists, shp, pc, err, failedAt, roads, highway_col, roads_proj, G, idx,
              segNo, files, steps, last, segLog>>
vars == <<helperVars, mainVars>>

Unset == [k |-> "unset"]

(***************************************************************************)
(* Inputs of the helper specifications.                                    *)
(***************************************************************************)
SeqsUpTo(S, n) == UNION {[1..m -> S] : m \in 0..n}

SpeedAlphabet == {"0", "5", ".", "-", " ", "x"}
SpeedTexts(n) == SeqsUpTo(SpeedAlphabet, n)
                \cup {<<"n","a","n">>, <<"N","a","N">>, <<"n","o","n","e">>, <<"f","a","s","t">>,
                      <<"1",".","2",".","3">>, <<"3","0",".","5">>, <<"5","m","p","h">>,
                      <<"5","0"," ","m","p","h">>, <<"5","0"," ","k","m","/","h">>}
MaxspeedCells(n) == {PyNone, NaN} \cup {PyInt(i) : i \in {-5, 0, 30, 120}}
                    \cup {PyText(s) : s \in SpeedTexts(n)}
ClassCells == {PyName("motorway"), PyName("residential"), PyName("steps"), PyName("rail"),
               PyNone, NaN}
MaxspeedNames == {N_maxspeed, <<"M","A","X","S","P","E","E","D">>}
ClassNames == {N_fclass, N_highway, <<"F","c","l","a","s","s">>}
OtherCol == Col(<<"n","a","m","e">>, PyText(<<"x">>))

\* rows with and without a max-speed column and a class column, in either order
SpeedRows(n) ==
    LET ms == {<<>>} \cup {<<Col(c, v)>> : c \in MaxspeedNames, v \in MaxspeedCells(n)}
        cl == {<<>>} \cup {<<Col(c, v)>> : c \in ClassNames, v \in ClassCells}
    IN {<<OtherCol>> \o a \o b : a \in ms, b \in cl} \cup {b \o a : a \in ms, b \in cl}

OnewayAlphabet == {"f", "F", "t", "T", "b", "B", " ", "x"}
OnewayCells(n) == {PyNone, NaN, PyInt(0), PyInt(1)}
                     \cup {PyText(s) : s \in SeqsUpTo(OnewayAlphabet, n)}
OnewayNames == {N_oneway, <<"O","N","E","W","A","Y">>, <<"O","n","e","W","a","y">>}
OnewayRows(n) ==
    {<<OtherCol>>, <<>>}
      \cup {<<OtherCol, Col(c, v)>> : c \in OnewayNames, v \in OnewayCells(n)}
      \cup {<<Col(c, v), Col(N_oneway, PyText(<<"T">>))>> :
                c \in {<<"o","n","e","w","a","y","s">>, <<"O","N","E","W","A","Y">>},
                v \in {PyText(<<"F">>)}}

Lons == {0, 1}
ProjPoints == {<<lon * MetersPerDegree, 0>> : lon \in Lons}
\* a line has no coordinates (empty) or at least two
Lines(nv) == {<<>>} \cup UNION {[1..m -> ProjPoints] : m \in 2..nv}
Geoms(nv, np) == {GNone} \cup {PointGeom(p) : p \in ProjPoints}
                   \cup {LineString(c) : c \in Lines(nv)}
                   \cup {MultiLineString(ps) : ps \in SeqsUpTo(Lines(nv), np)}

(***************************************************************************)
(* One helper called on one input.                                         *)
(***************************************************************************)
HelperIdle == /\ speedOut = Unset /\ onewayOut = Unset /\ segsOut = Unset /\ phase = "in"
MainIdle == /\ fileExists = FALSE /\ shp = Unset /\ pc = "idle" /\ err = "none" /\ failedAt = "none"
            /\ roads = Unset /\ highway_col = 0 /\ roads_proj = Unset /\ G = Unset
            /\ idx = 0 /\ segNo = 0
            /\ files = [graphml |-> "untouched", pickle |-> "untouched"]
            /\ steps = <<>> /\ last = Unset /\ segLog = <<>>

InitSpeed == /\ multiIterable = TRUE /\ row \in SpeedRows(MaxStrLen) /\ geom = GNone /\ HelperIdle /\ MainIdle
CallInferSpeed == /\ phase = "in"
                  /\ speedOut' = infer_speed_kph(row)
                  /\ phase' = "out"
                  /\ UNCHANGED <<row, geom, onewayOut, segsOut, multiIterable, mainVars>>
NextSpeed == CallInferSpeed
SpecSpeed == InitSpeed /\ [][NextSpeed]_vars

InitOneway == /\ multiIterable = TRUE /\ row \in OnewayRows(MaxStrLen) /\ geom = GNone /\ HelperIdle /\ MainIdle
CallGetOnewayCode == /\ phase = "in"
                     /\ onewayOut' = get_oneway_code(row)
                     /\ phase' = "out"
                     /\ UNCHANGED <<row, geom, speedOut, segsOut, multiIterable, mainVars>>
NextOneway == CallGetOnewayCode
SpecOneway == InitOneway /\ [][NextOneway]_vars

InitGeom == /\ multiIterable \in BOOLEAN /\ geom \in Geoms(MaxVertices, MaxParts) /\ row = <<>> /\ HelperIdle /\ MainIdle
CallGeometryToSegments == /\ phase = "in"
                          /\ segsOut' = geometry_to_segments(geom, multiIterable)
                          /\ phase' = "out"
                          /\ UNCHANGED <<row, geom, speedOut, onewayOut, multiIterable, mainVars>>
NextGeom == CallGeometryToSegments
SpecGeom == InitGeom /\ [][NextGeom]_vars

(***************************************************************************)
(* What the shapefile may hold: three column layouts, up to MaxRows        *)
(* records.  A record varies the line and the one-way flag together and    *)
(* the other attributes one at a time.                                     *)
(***************************************************************************)
T_F == PyText(<<"F">>)
T_T == PyText(<<"T">>)
T_B == PyText(<<"B">>)
P0 == <<0, 0>>
P1 == <<1, 0>>
L01 == LineString(<<P0, P1>>)
L10 == LineString(<<P1, P0>>)
L010 == LineString(<<P0, P1, P0>>)
M2 == MultiLineString(<< <<P0, P0, P1>>, <<P1, P0>> >>)
ColumnsFull == <<N_fclass, N_maxspeed, N_oneway, N_geometry>>
RecordsFull ==
    {<<PyName("motorway"), PyInt(30), o, GeomCell(g)>> : o \in {T_F, T_T, T_B}, g \in {L01, L10, L010}}
      \cup {<<PyName("motorway"), PyInt(30), T_B, GeomCell(g)>> : g \in {M2, GNone}}
      \cup {<<PyName("motorway"), PyInt(30), PyNone, GeomCell(L01)>>}
      \cup {<<PyName(c), PyInt(30), T_B, GeomCell(L01)>> : c \in {"residential", "rail"}}
      \cup {<<PyName("motorway"), m, T_B, GeomCell(L01)>> :
                m \in {NaN, PyInt(0), PyInt(-5), PyText(<<"1",".","2",".","3">>)}}
ColumnsNoClass == <<N_maxspeed, N_oneway, N_geometry>>
RecordsNoClass == {<<PyInt(30), T_B, GeomCell(L01)>>}
ColumnsUpper == <<<<"H","i","g","h","w","a","y">>, <<"O","N","E","W","A","Y">>, N_geometry>>
RecordsUpper ==
    {<<PyName(c), o, GeomCell(g)>> : c \in {"steps", "rail"}, o \in {T_F, T_B},
                                     g \in {L01, L10}}
ShpTables(n) == {Table(ColumnsFull, rs) : rs \in SeqsUpTo(RecordsFull, n)}
                  \cup {Table(ColumnsNoClass, rs) : rs \in SeqsUpTo(RecordsNoClass, n)}
                  \cup {Table(ColumnsUpper, rs) : rs \in SeqsUpTo(RecordsUpper, n)}

(***************************************************************************)
(* main()                                                                  *)
(***************************************************************************)
\* a variant without the existence check
PathExists_Unchecked(exists) == TRUE
\* os.path.exists(ROADS_SHP_PATH)
PathExists(exists) == exists

\* a variant that writes the pickle before the GraphML
StepAfter_PickleFirst(step) ==
    CASE step = "exists" -> "load"
      [] step = "load" -> "findcol"
      [] step = "findcol" -> "filter"
      [] step = "filter" -> "project"
      [] step = "project" -> "explode"
      [] step = "explode" -> "length"
      [] step = "length" -> "speed"
      [] step = "speed" -> "guard"
      [] step = "guard" -> "traveltime"
      [] step = "traveltime" -> "newgraph"
      [] step = "newgraph" -> "build"
      [] step = "build" -> "centrality"
      [] step = "centrality" -> "pickle"
      [] step = "pickle" -> "graphml"
      [] step = "graphml" -> "done"
\* the step that follows a completed step (the statement order of main)
StepAfter(step) ==
    CASE step = "exists" -> "load"
      [] step = "load" -> "findcol"
      [] step = "findcol" -> "filter"
      [] step = "filter" -> "project"
      [] step = "project" -> "explode"
      [] step = "explode" -> "length"
      [] step = "length" -> "speed"
      [] step = "speed" -> "guard"
      [] step = "guard" -> "traveltime"
      [] step = "traveltime" -> "newgraph"
      [] step = "newgraph" -> "build"
      [] step = "build" -> "centrality"
      [] step = "centrality" -> "graphml"
      [] step = "graphml" -> "pickle"
      [] step = "pickle" -> "done"
Advance == /\ pc' = StepAfter(pc)
           /\ steps' = Append(steps, pc)

Init == /\ row = <<>> /\ geom = GNone /\ HelperIdle
        /\ multiIterable \in BOOLEAN
        /\ fileExists \in BOOLEAN
        /\ shp \in (IF fileExists THEN ShpTables(MaxRows) ELSE {Unset})
        /\ pc = "exists" /\ err = "none" /\ failedAt = "none"
        /\ roads = Unset /\ highway_col = 0 /\ roads_proj = Unset /\ G = Unset
        /\ idx = 0 /\ segNo = 0
        /\ files = [graphml |-> "untouched", pickle |-> "untouched"]
        /\ steps = <<>> /\ last = Unset /\ segLog = <<>>

\* lines 205-206
CheckExists ==
    /\ pc = "exists"
    /\ IF PathExists(fileExists)
       THEN Advance /\ err' = err
       ELSE pc' = "raised" /\ err' = "FileNotFoundError" /\ steps' = steps
    /\ UNCHANGED <<helperVars, fileExists, shp, failedAt, roads, highway_col, roads_proj, G,
                   idx, segNo, files, last, segLog>>

\* lines 209-222: read_file raises when there is nothing at the path
Load ==
    /\ pc = "load"
    /\ IF shp = Unset
       THEN /\ pc' = "failed" /\ err' = "library" /\ failedAt' = pc
            /\ roads' = roads /\ steps' = steps
       ELSE /\ roads' = BBoxFilter(shp)
            /\ Advance /\ err' = err /\ failedAt' = failedAt
    /\ UNCHANGED <<helperVars, fileExists, shp, highway_col, roads_proj, G,
                   idx, segNo, files, last, segLog>>

\* lines 225-234
FindClassColumn ==
    /\ pc = "findcol"
    /\ highway_col' = FindHighwayCol(roads.columns)
    /\ IF highway_col' = 0
       THEN pc' = "raised" /\ err' = "ValueError: no class column" /\ steps' = steps
       ELSE Advance /\ err' = err
    /\ UNCHANGED <<helperVars, fileExists, shp, failedAt, roads, roads_proj, G,
                   idx, segNo, files, last, segLog>>

\* lines 237-249
Filter ==
    /\ pc = "filter"
    /\ roads' = FilterDriveable(roads, highway_col)
    /\ Advance
    /\ UNCHANGED <<helperVars, fileExists, shp, err, failedAt, highway_col, roads_proj, G,
                   idx, segNo, files, last, segLog>>

\* line 253
Project ==
    /\ pc = "project"
    /\ roads_proj' = ToCrs(roads)
    /\ Advance
    /\ UNCHANGED <<helperVars, fileExists, shp, err, failedAt, roads, highway_col, G,
                   idx, segNo, files, last, segLog>>

\* lines 256-258
ExplodeParts ==
    /\ pc = "explode"
    /\ roads_proj' = (IF \E j \in 1..Len(roads_proj.columns) : roads_proj.columns[j] = N_geometry
                      THEN Explode(roads_proj) ELSE roads_proj)
    /\ Advance
    /\ UNCHANGED <<helperVars, fileExists, shp, err, failedAt, roads, highway_col, G,
                   idx, segNo, files, last, segLog>>

\* line 262
ComputeLengths ==
    /\ pc = "length"
    /\ roads_proj' = WithLengths(roads_proj)
    /\ Advance
    /\ UNCHANGED <<helperVars, fileExists, shp, err, failedAt, roads, highway_col, G,
                   idx, segNo, files, last, segLog>>

\* line 266: an exception of infer_speed_kph ends main
InferSpeeds ==
    /\ pc = "speed"
    /\ IF ApplyInferSpeed(roads_proj).ok
       THEN /\ roads_proj' = AppendCol(roads_proj, N_speed_kph, ApplyInferSpeed(roads_proj).vals)
            /\ Advance /\ err' = err
       ELSE /\ pc' = "crashed" /\ err' = "ValueError: float()" /\ steps' = steps
            /\ roads_proj' = roads_proj
    /\ UNCHANGED <<helperVars, fileExists, shp, failedAt, roads, highway_col, G,
                   idx, segNo, files, last, segLog>>

\* line 269
Guard ==
    /\ pc = "guard"
    /\ roads_proj' = GuardSpeeds(roads_proj)
    /\ Advance
    /\ UNCHANGED <<helperVars, fileExists, shp, err, failedAt, roads, highway_col, G,
                   idx, segNo, files, last, segLog>>

\* lines 272-274
TravelTimes ==
    /\ pc = "traveltime"
    /\ roads_proj' = WithTravelTimes(roads_proj)
    /\ Advance
    /\ UNCHANGED <<helperVars, fileExists, shp, err, failedAt, roads, highway_col, G,
                   idx, segNo, files, last, segLog>>

\* line 281, and the start of the loop of line 283
NewGraph ==
    /\ pc = "newgraph"
    /\ G' = EmptyGraph
    /\ idx' = 1 /\ segNo' = 0
    /\ Advance
    /\ UNCHANGED <<helperVars, fileExists, shp, err, failedAt, roads, highway_col, roads_proj,
                   files, last, segLog>>

RowSegments(i) == geometry_to_segments(Cell(roads_proj, i, N_geometry).g, multiIterable)

\* lines 286-318: the loop body for the next segment of row idx
BuildSegment ==
    /\ pc = "build"
    /\ idx <= Len(roads_proj.rows)
    /\ segNo < Len(RowSegments(idx).yields)
    /\ LET sg == RowSegments(idx).yields[segNo + 1]
           u == sg.start
           v == sg.end
           oneway_code == get_oneway_code(RowSeries(roads_proj, idx))
           calls == EdgeCalls(oneway_code, u, v)
           attr == EdgeAttrs(roads_proj, idx, highway_col, PyInt(sg.length_m))
       IN /\ G' = AddEdges(G, calls, attr)
          /\ last' = [row |-> idx, u |-> u, v |-> v, calls |-> calls, before |-> DOMAIN G.adj]
          /\ segLog' = Append(segLog, [row |-> idx, u |-> u, v |-> v, length_m |-> sg.length_m,
                                       pairs |-> {calls[c] : c \in 1..Len(calls)}])
    /\ segNo' = segNo + 1
    /\ UNCHANGED <<helperVars, fileExists, shp, pc, err, failedAt, roads, highway_col, roads_proj,
                   idx, files, steps>>

\* line 283/286: the generator of row idx is exhausted, or raises
BuildNextRow ==
    /\ pc = "build"
    /\ idx <= Len(roads_proj.rows)
    /\ segNo >= Len(RowSegments(idx).yields)
    /\ IF RowSegments(idx).exc = "none"
       THEN idx' = idx + 1 /\ segNo' = 0 /\ pc' = pc /\ err' = err
       ELSE idx' = idx /\ segNo' = segNo /\ pc' = "crashed" /\ err' = RowSegments(idx).exc
    /\ UNCHANGED <<helperVars, fileExists, shp, failedAt, roads, highway_col, roads_proj,
                   G, files, steps, last, segLog>>

\* line 320: the loop is over
BuildDone ==
    /\ pc = "build"
    /\ idx > Len(roads_proj.rows)
    /\ Advance
    /\ UNCHANGED <<helperVars, fileExists, shp, err, failedAt, roads, highway_col, roads_proj,
                   G, idx, segNo, files, last, segLog>>

\* lines 324-328: a diagnostic that only prints
Centrality ==
    /\ pc = "centrality"
    /\ Advance
    /\ UNCHANGED <<helperVars, fileExists, shp, err, failedAt, roads, highway_col, roads_proj,
                   G, idx, segNo, files, last, segLog>>

\* line 332
WriteGraphML ==
    /\ pc = "graphml"
    /\ files' = [files EXCEPT !.graphml = "written"]
    /\ Advance
    /\ UNCHANGED <<helperVars, fileExists, shp, err, failedAt, roads, highway_col, roads_proj,
                   G, idx, segNo, last, segLog>>

\* lines 337-338
WritePickle ==
    /\ pc = "pickle"
    /\ files' = [files EXCEPT !.pickle = "written"]
    /\ Advance
    /\ UNCHANGED <<helperVars, fileExists, shp, err, failedAt, roads, highway_col, roads_proj,
                   G, idx, segNo, last, segLog>>

\* a call into geopandas, networkx or pickle raises; a write that fails may
\* leave its file partly written
LibrarySteps == {"load", "filter", "project", "explode", "length", "speed", "guard",
                 "traveltime", "newgraph", "build", "centrality", "graphml", "pickle"}
LibraryFailure ==
    /\ pc \in LibrarySteps
    /\ pc' = "failed" /\ err' = "library" /\ failedAt' = pc
    /\ \E partial \in BOOLEAN :
          files' = IF partial /\ pc \in {"graphml", "pickle"}
                   THEN [files EXCEPT ![pc] = "partial"] ELSE files
    /\ UNCHANGED <<helperVars, fileExists, shp, roads, highway_col, roads_proj,
                   G, idx, segNo, steps, last, segLog>>

Next == \/ CheckExists \/ Load \/ FindClassColumn \/ Filter \/ Project \/ ExplodeParts
        \/ ComputeLengths \/ InferSpeeds \/ Guard \/ TravelTimes \/ NewGraph
        \/ BuildSegment \/ BuildNextRow \/ BuildDone \/ Centrality
        \/ WriteGraphML \/ WritePickle \/ LibraryFailure
Spec == Init /\ [][Next]_vars

(***************************************************************************)
(* Properties.                                                             *)
(***************************************************************************)
StepDone(step) == \E i \in 1..Len(steps) : steps[i] = step
Ended == pc \in {"raised", "crashed", "failed", "done"}

\* the one-way cell of row i of roads_proj, whatever the case of the column name
OnewayCell(i) ==
    LET j == CHOOSE j \in 1..Len(roads_proj.columns) :
                 roads_proj.columns[j] \in {N_oneway, <<"O","N","E","W","A","Y">>}
    IN roads_proj.rows[i][j]
PairsFor(cell, u, v) ==
    IF cell = T_F THEN {<<u, v>>}
    ELSE IF cell = T_T THEN {<<v, u>>}
    ELSE {<<u, v>>, <<v, u>>}

\* C1: for the segment (u, v) just processed, the pairs handed to add_edge and the
\* edges that appeared in the graph are exactly: u->v for code F, v->u for code T,
\* both for code B or a missing value; no other edge is added.
C1_EdgesFollowOnewayCode ==
    last # Unset =>
        LET want == PairsFor(OnewayCell(last.row), last.u, last.v) IN
        /\ {last.calls[c] : c \in 1..Len(last.calls)} = want
        /\ DOMAIN G.adj = last.before \cup want
C1_Witness ==
    /\ last # Unset
    /\ OnewayCell(last.row) = T_T
    /\ last.u # last.v
    /\ <<last.u, last.v>> \notin DOMAIN G.adj

HasMaxspeedCol == \E i \in 1..Len(row) : row[i].name \in MaxspeedNames
MaxspeedCell == row[CHOOSE i \in 1..Len(row) : row[i].name \in MaxspeedNames].val
HasClassCol == \E i \in 1..Len(row) : row[i].name \in ClassNames
ClassCell == row[CHOOSE i \in 1..Len(row) : row[i].name \in ClassNames].val
ClassDefaultOr50 ==
    IF HasClassCol /\ ClassCell.k = "name" /\ ClassCell.c \in DOMAIN DEFAULT_SPEEDS_KPH
    THEN PyInt(DEFAULT_SPEEDS_KPH[ClassCell.c])
    ELSE PyInt(50)
\* no max-speed column, None, NaN, or text that is empty or spells nan/none
MaxspeedMissing ==
    \/ ~HasMaxspeedCol
    \/ MaxspeedCell.k \in {"None", "nan"}
    \/ /\ MaxspeedCell.k = "str"
       /\ SelectSeq(Lower(MaxspeedCell.s), LAMBDA ch : ch # " ")
             \in {<<>>, <<"n","a","n">>, <<"n","o","n","e">>}

\* C2: a numeric max-speed is the result; a missing max-speed (no column, None,
\* NaN, empty) gives the class default, or 50 when there is no class column or
\* the class is not in the table.
C2_FallbackOrder ==
    phase = "out" =>
        /\ MaxspeedMissing => speedOut = ClassDefaultOr50
        /\ (HasMaxspeedCol /\ MaxspeedCell.k = "num") => speedOut = MaxspeedCell

\* C3: infer_speed_kph returns a value for every row; it never raises.
C3_NeverRaises == phase = "out" => ~IsRaise(speedOut)

\* C4: once the guard of line 269 has run, every row's speed_kph is strictly
\* positive, and so is the speed_kph of every edge of the graph.
C4_PositiveSpeeds ==
    StepDone("guard") =>
        /\ \A i \in 1..Len(roads_proj.rows) : GtZero(Cell(roads_proj, i, N_speed_kph))
        /\ G # Unset => \A e \in DOMAIN G.adj : GtZero(G.adj[e].speed_kph)

HasOnewayCol == \E i \in 1..Len(row) : row[i].name \in OnewayNames
FirstOnewayCell == row[CHOOSE i \in 1..Len(row) :
                          /\ row[i].name \in OnewayNames
                          /\ \A h \in 1..(i - 1) : row[h].name \notin OnewayNames].val
Letters(s) == SelectSeq(s, LAMBDA ch : ch # " ")

\* C5: get_oneway_code returns F, T or B: the letter of the cell of the column
\* named oneway in any letter case when the cell is that letter in either case
\* with spaces around it, and B when the column is missing or holds anything else.
C5_OnewayCode ==
    phase = "out" =>
        /\ onewayOut \in {"F", "T", "B"}
        /\ ~HasOnewayCol => onewayOut = "B"
        /\ (HasOnewayCol /\ FirstOnewayCell.k # "str") => onewayOut = "B"
        /\ (HasOnewayCol /\ FirstOnewayCell.k = "str") =>
              LET t == FirstOnewayCell.s IN
              onewayOut = (IF Letters(t) \in {<<"f">>, <<"F">>} THEN "F"
                           ELSE IF Letters(t) \in {<<"t">>, <<"T">>} THEN "T"
                           ELSE "B")
C5_Witness ==
    /\ phase = "out"
    /\ HasOnewayCol
    /\ FirstOnewayCell = PyText(<<" ", "t", " ">>)
    /\ row[2].name = <<"O","n","e","W","a","y">>
    /\ onewayOut = "T"

\* C6: when the input path does not exist, main raises FileNotFoundError before
\* any other step: nothing is loaded, no graph is built, no output file is touched.
C6_MissingInputRaises ==
    ~fileExists =>
        /\ pc \in {"exists", "raised"}
        /\ pc = "raised" => err = "FileNotFoundError"
        /\ steps = <<>>
        /\ roads = Unset /\ roads_proj = Unset /\ G = Unset
        /\ files = [graphml |-> "untouched", pickle |-> "untouched"]
C6_Witness == ~fileExists /\ pc = "raised" /\ err = "FileNotFoundError"

ScriptRaises == {"FileNotFoundError", "ValueError: no class column"}
HasClassColumn(columns) ==
    \E j \in 1..Len(columns) : columns[j] \in {N_fclass, N_highway, <<"H","i","g","h","w","a","y">>}

\* C7 as the specification states it: when the input file exists, no raise statement of the script runs.
C7_OnlyMissingFileRaises == fileExists => err \notin ScriptRaises

\* C7 as amended: the script's raise statements run in exactly two cases, the
\* input file is absent (FileNotFoundError) or the loaded table has no highway or
\* fclass column (ValueError); with the file and the column present none runs.
C7_TwoExplicitRaises ==
    /\ pc = "raised" <=> err \in ScriptRaises
    /\ err = "FileNotFoundError" => ~fileExists
    /\ err = "ValueError: no class column" => fileExists /\ ~HasClassColumn(shp.columns)
    /\ (fileExists /\ HasClassColumn(shp.columns)) => err \notin ScriptRaises
    /\ (fileExists /\ ~HasClassColumn(shp.columns)) => ~StepDone("findcol")
    /\ (Ended /\ ~fileExists) => err = "FileNotFoundError"
C7_Witness ==
    /\ fileExists
    /\ pc = "raised"
    /\ err = "ValueError: no class column"
    /\ Len(shp.rows) > 0

\* the k-th part (in part order) that has at least two coordinates
LongParts(parts) == {p \in 1..Len(parts) : Len(parts[p]) >= 2}
NthLongPart(parts, n) ==
    CHOOSE p \in LongParts(parts) : Cardinality({q \in LongParts(parts) : q < p}) = n - 1
Chord(coords) == [start |-> coords[1], end |-> coords[Len(coords)], length_m |-> PathLength(coords)]

\* C8: a line with at least two coordinates yields one segment (first coordinate,
\* last coordinate, length of the line); a multi-part geometry yields one such
\* segment per part with at least two coordinates, in part order; None, an empty
\* geometry and any other type yield nothing.
C8_EndpointsOnly ==
    phase = "out" =>
        /\ segsOut.exc = "none"
        /\ (geom.t = "LineString" /\ Len(geom.coords) >= 2) => segsOut.yields = <<Chord(geom.coords)>>
        /\ (geom.t = "LineString" /\ Len(geom.coords) < 2) => segsOut.yields = <<>>
        /\ geom.t = "MultiLineString" =>
              /\ Len(segsOut.yields) = Cardinality(LongParts(geom.parts))
              /\ \A n \in 1..Len(segsOut.yields) :
                    segsOut.yields[n] = Chord(geom.parts[NthLongPart(geom.parts, n)])
        /\ geom.t \notin {"LineString", "MultiLineString"} => segsOut.yields = <<>>

StepOrder == <<"exists", "load", "findcol", "filter", "project", "explode", "length", "speed",
               "guard", "traveltime", "newgraph", "build", "centrality", "graphml", "pickle">>
SegmentsLogged(i) == Cardinality({n \in 1..Len(segLog) : segLog[n].row = i})

\* C9: the steps complete in the fixed order; no output file is touched before
\* every row has been turned into edges; the pickle is touched only after the
\* GraphML is written; a run that ends before the GraphML write completes leaves
\* the pickle untouched.
C9_StepOrder ==
    /\ Len(steps) <= Len(StepOrder)
    /\ \A i \in 1..Len(steps) : steps[i] = StepOrder[i]
    /\ files.graphml # "untouched" =>
          /\ StepDone("build")
          /\ \A i \in 1..Len(roads_proj.rows) : SegmentsLogged(i) = Len(RowSegments(i).yields)
    /\ files.pickle # "untouched" => files.graphml = "written" /\ StepDone("graphml")
    /\ (Ended /\ ~StepDone("graphml")) => files.pickle = "untouched"
C9_Witness ==
    /\ pc = "failed"
    /\ failedAt = "graphml"
    /\ files.graphml = "partial"
    /\ Len(segLog) >= 2

LastProducer(e) ==
    CHOOSE n \in 1..Len(segLog) :
        /\ e \in segLog[n].pairs
        /\ \A m \in 1..Len(segLog) : e \in segLog[m].pairs => m <= n
AttrsOfSegment(n) ==
    [length_m |-> PyInt(segLog[n].length_m),
     speed_kph |-> Cell(roads_proj, segLog[n].row, N_speed_kph),
     travel_time_s |-> Cell(roads_proj, segLog[n].row, N_travel_time_s),
     highway |-> roads_proj.rows[segLog[n].row][highway_col]]

\* C10: the graph holds one edge per ordered pair of coordinate pairs that some
\* segment produced, so at most 2 x (number of segments); each edge carries the
\* attributes of the last segment that produced its pair; a segment whose start
\* is its end yields one self-loop.
C10_LastSegmentWins ==
    (G # Unset) =>
        /\ DOMAIN G.adj = UNION {segLog[n].pairs : n \in 1..Len(segLog)}
        /\ Cardinality(DOMAIN G.adj) <= 2 * Len(segLog)
        /\ G.nodes = UNION {{segLog[n].u, segLog[n].v} : n \in 1..Len(segLog)}
        /\ \A e \in DOMAIN G.adj : G.adj[e] = AttrsOfSegment(LastProducer(e))
        /\ \A n \in 1..Len(segLog) :
              segLog[n].u = segLog[n].v => segLog[n].pairs = {<<segLog[n].u, segLog[n].u>>}
C10_Witness ==
    /\ pc = "done"
    /\ Len(segLog) = 2
    /\ segLog[1].pairs \cap segLog[2].pairs # {}
    /\ AttrsOfSegment(1) # AttrsOfSegment(2)
    /\ segLog[1].u # segLog[2].u
=============================================================================
